---- MODULE Spec2Model ----
(***************************************************************************)
(* Content aggregate of the CMS backend: the ContentState value object,    *)
(* the immutable Content entity and the in-memory ContentRepository.       *)
(*                                                                         *)
(* Strings are modelled by the strings c^n (n copies of one character c):  *)
(* [ch |-> c, len |-> n], the empty string being [ch |-> "", len |-> 0].   *)
(* length, substring, === and truthiness are computed on that form.        *)
(* An optional value (a ?-field, undefined or null) is <<>> or <<v>>.      *)
(* Dates are milliseconds, read from the variable clock by new Date().     *)
(***************************************************************************)
EXTENDS Integers, Sequences, FiniteSets, TLC

VARIABLES
  heap,             \* the Content instances the caller holds, by reference 1..Len(heap)
  stamp,            \* stamp[r]: the first publishedAt set among heap[r] and the instances it derives from
  clock,            \* the time new Date() returns
  last,             \* the last entity call: its receiver, arguments and Result
  contents,         \* InMemoryContentRepository.contents: the Map's entries in insertion order
  deletedContents,  \* InMemoryContentRepository.deletedContents
  rlast,            \* the last repository call made directly (not by a use case) and its Result
  slast,            \* the last use case that came to its Result: its arguments, the record found, the record stored as it went on, its Result
  calls             \* calls[p]: the use case caller p has in flight, awaiting findById

vars == <<heap, stamp, clock, last, contents, deletedContents, rlast, slast, calls>>

---------------------------------------------------------------------------
(* Bounds of the model *)

MaxClock == 2

(* Program constants *)

TitleMin == 5
TitleMax == 100
BodyMin == 100
ExcerptLen == 150

---------------------------------------------------------------------------
(* Optional values, strings *)

None == <<>>
Some(v) == <<v>>
IsSome(o) == o # <<>>
Get(o) == o[1]

Min(a, b) == IF a < b THEN a ELSE b

Str(c, n) == [ch |-> IF n = 0 THEN "" ELSE c, len |-> n]
EmptyStr == Str("", 0)
Length(s) == s.len
\* s.substring(0, n)
Substring0(s, n) == Str(s.ch, Min(n, s.len))
\* JavaScript truthiness of a string: the empty string is falsy
Truthy(s) == s.len > 0

---------------------------------------------------------------------------
(* Result<T, E> *)

ok(v) == [ok |-> TRUE, value |-> v]
err(e) == [ok |-> FALSE, error |-> e]

TitleError == <<"Title must be between 5 and 100 characters">>
BodyError == <<"Body must be at least 100 characters">>
TransitionError(from, to) == <<"Cannot transition from", from, "to", to>>
NotFoundError == <<"Content not found">>
SoftDeleteError == <<"Only published content can be soft deleted">>
HardDeleteError == <<"Published content cannot be hard deleted">>
NoError == <<>>

---------------------------------------------------------------------------
(* ContentState *)

ContentStateType == {"draft", "published", "private", "archived"}

isPublished(s) == s = "published"

canTransitionTo_allowAll(currentState, targetState) == TRUE

canTransitionTo(currentState, targetState) ==
  IF currentState = "archived" /\ targetState = "published"
  THEN FALSE
  ELSE TRUE

---------------------------------------------------------------------------
(* Content *)

\* new Content(id, title, body, authorId, state, excerpt, publishedAt, updatedAt)
NewContent(id, title, body, authorId, state, excerpt, publishedAt, updatedAt) ==
  [id |-> id, title |-> title, body |-> body, authorId |-> authorId,
   state |-> state, excerpt |-> excerpt, publishedAt |-> publishedAt,
   updatedAt |-> updatedAt]

create(props, now) ==
  IF Length(props.title) < TitleMin \/ Length(props.title) > TitleMax
  THEN err(TitleError)
  ELSE IF Length(props.body) < BodyMin
  THEN err(BodyError)
  ELSE LET excerpt == IF IsSome(props.excerpt) /\ Truthy(Get(props.excerpt))
                      THEN Get(props.excerpt)
                      ELSE Substring0(props.body, ExcerptLen)
       IN ok(NewContent(props.id, props.title, props.body, props.authorId,
                        props.state, excerpt, props.publishedAt,
                        IF IsSome(props.updatedAt) THEN props.updatedAt ELSE Some(now)))

(* A method is modelled by the receiver after the call (this) and the      *)
(* Result it returns (result).                                             *)

updateTitle_inPlace(this, newTitle, now) ==
  IF Length(newTitle) < TitleMin \/ Length(newTitle) > TitleMax
  THEN [this |-> this, result |-> err(TitleError)]
  ELSE LET t == [this EXCEPT !.title = newTitle, !.updatedAt = Some(now)]
       IN [this |-> t, result |-> ok(t)]

updateTitle(this, newTitle, now) ==
  IF Length(newTitle) < TitleMin \/ Length(newTitle) > TitleMax
  THEN [this |-> this, result |-> err(TitleError)]
  ELSE [this |-> this,
        result |-> ok(NewContent(this.id, newTitle, this.body, this.authorId,
                                 this.state, this.excerpt, this.publishedAt,
                                 Some(now)))]

updateBody_keepsExcerpt(this, newBody, now) ==
  IF Length(newBody) < BodyMin
  THEN [this |-> this, result |-> err(BodyError)]
  ELSE [this |-> this,
        result |-> ok(NewContent(this.id, this.title, newBody, this.authorId,
                                 this.state, this.excerpt, this.publishedAt,
                                 Some(now)))]

updateBody(this, newBody, now) ==
  IF Length(newBody) < BodyMin
  THEN [this |-> this, result |-> err(BodyError)]
  ELSE LET newExcerpt == IF this.excerpt = Substring0(this.body, ExcerptLen)
                         THEN Substring0(newBody, ExcerptLen)
                         ELSE this.excerpt
       IN [this |-> this,
           result |-> ok(NewContent(this.id, this.title, newBody, this.authorId,
                                    this.state, newExcerpt, this.publishedAt,
                                    Some(now)))]

updateExcerpt(this, newExcerpt, now) ==
  [this |-> this,
   result |-> ok(NewContent(this.id, this.title, this.body, this.authorId,
                            this.state, newExcerpt, this.publishedAt,
                            Some(now)))]

changeState_restamp(this, newState, now) ==
  IF ~canTransitionTo(this.state, newState)
  THEN [this |-> this, result |-> err(TransitionError(this.state, newState))]
  ELSE LET publishedAt == IF isPublished(newState) THEN Some(now)
                          ELSE this.publishedAt
       IN [this |-> this,
           result |-> ok(NewContent(this.id, this.title, this.body, this.authorId,
                                    newState, this.excerpt, publishedAt,
                                    Some(now)))]

changeState_clearsOnLeave(this, newState, now) ==
  IF ~canTransitionTo(this.state, newState)
  THEN [this |-> this, result |-> err(TransitionError(this.state, newState))]
  ELSE LET publishedAt == IF isPublished(newState)
                          THEN (IF IsSome(this.publishedAt) THEN this.publishedAt
                                ELSE Some(now))
                          ELSE None
       IN [this |-> this,
           result |-> ok(NewContent(this.id, this.title, this.body, this.authorId,
                                    newState, this.excerpt, publishedAt,
                                    Some(now)))]

changeState_noStamp(this, newState, now) ==
  IF ~canTransitionTo(this.state, newState)
  THEN [this |-> this, result |-> err(TransitionError(this.state, newState))]
  ELSE [this |-> this,
        result |-> ok(NewContent(this.id, this.title, this.body, this.authorId,
                                 newState, this.excerpt, this.publishedAt,
                                 Some(now)))]

changeState(this, newState, now) ==
  IF ~canTransitionTo(this.state, newState)
  THEN [this |-> this, result |-> err(TransitionError(this.state, newState))]
  ELSE LET publishedAt == IF isPublished(newState) /\ ~IsSome(this.publishedAt)
                          THEN Some(now)
                          ELSE this.publishedAt
       IN [this |-> this,
           result |-> ok(NewContent(this.id, this.title, this.body, this.authorId,
                                    newState, this.excerpt, publishedAt,
                                    Some(now)))]

publish(this, now) == changeState(this, "published", now)
unpublish(this, now) == changeState(this, "private", now)
archive(this, now) == changeState(this, "archived", now)

isOwnedBy(this, userId) == this.authorId = userId

---------------------------------------------------------------------------
(* Map<string, Content>: the entries [key, value] in insertion order *)

MapHas(m, k) == \E i \in 1..Len(m) : m[i].key = k
MapIndex(m, k) == CHOOSE i \in 1..Len(m) : m[i].key = k
\* Map.get: undefined (None) for a key that is not there
MapGet(m, k) == IF MapHas(m, k) THEN Some(m[MapIndex(m, k)].value) ELSE None
\* Map.set: a key that is there keeps its place, a new key goes last
MapSet(m, k, v) ==
  IF MapHas(m, k)
  THEN [m EXCEPT ![MapIndex(m, k)] = [key |-> k, value |-> v]]
  ELSE Append(m, [key |-> k, value |-> v])
MapDelete(m, k) == SelectSeq(m, LAMBDA e : e.key # k)
\* Array.from(Map.values())
MapValues(m) == [i \in 1..Len(m) |-> m[i].value]

\* Array.slice(from) and Array.slice(0, n), for from, n >= 0
SliceFrom(a, from) == SubSeq(a, from + 1, Len(a))
SliceTo(a, n) == SubSeq(a, 1, Min(n, Len(a)))

---------------------------------------------------------------------------
(* InMemoryContentRepository.  A repository is [contents, deletedContents]; *)
(* a method that writes is modelled by the repository after the call and   *)
(* the Result it returns.                                                  *)

FeaturedMax == 5

\* ContentSearchCriteria; every field is optional
NoCriteria == [authorId |-> None, state |-> None, publishedAfter |-> None,
               publishedBefore |-> None, limit |-> None, offset |-> None]

\* JavaScript truthiness of an optional string or number
TruthyStr(o) == IsSome(o) /\ Get(o) # ""
TruthyNum(o) == IsSome(o) /\ Get(o) # 0

NotDeleted(repo) ==
  SelectSeq(MapValues(repo.contents),
            LAMBDA content : content.id \notin repo.deletedContents)

findById_ignoresDeleted(repo, id) == ok(MapGet(repo.contents, id))

findById(repo, id) ==
  IF id \in repo.deletedContents
  THEN ok(None)
  ELSE ok(MapGet(repo.contents, id))

findByAuthor(repo, authorId) ==
  ok(SelectSeq(NotDeleted(repo), LAMBDA content : content.authorId = authorId))

\* the filters by publishedAfter / publishedBefore, then offset, then limit
Window(cs, criteria) ==
  LET a == IF IsSome(criteria.publishedAfter)
           THEN SelectSeq(cs, LAMBDA content :
                  /\ IsSome(content.publishedAt)
                  /\ Get(content.publishedAt) >= Get(criteria.publishedAfter))
           ELSE cs
      b == IF IsSome(criteria.publishedBefore)
           THEN SelectSeq(a, LAMBDA content :
                  /\ IsSome(content.publishedAt)
                  /\ Get(content.publishedAt) <= Get(criteria.publishedBefore))
           ELSE a
      c == IF TruthyNum(criteria.offset) THEN SliceFrom(b, Get(criteria.offset)) ELSE b
  IN IF TruthyNum(criteria.limit) THEN SliceTo(c, Get(criteria.limit)) ELSE c

\* criteria: None when findPublished() is called without an argument
findPublished(repo, criteria) ==
  LET published == SelectSeq(NotDeleted(repo),
                             LAMBDA content : isPublished(content.state))
  IN IF IsSome(criteria)
     THEN LET byAuthor == IF TruthyStr(Get(criteria).authorId)
                          THEN SelectSeq(published, LAMBDA content :
                                 content.authorId = Get(Get(criteria).authorId))
                          ELSE published
          IN ok(Window(byAuthor, Get(criteria)))
     ELSE ok(published)

\* a.getPublishedAt()?.getTime() || 0
TimeOf(content) == IF IsSome(content.publishedAt) THEN Get(content.publishedAt) ELSE 0

\* Array.sort((a, b) => bTime - aTime): stable, latest first
RECURSIVE InsertByTime(_, _)
InsertByTime(sorted, x) ==
  IF sorted = <<>> THEN <<x>>
  ELSE IF TimeOf(sorted[1]) >= TimeOf(x)
       THEN <<sorted[1]>> \o InsertByTime(Tail(sorted), x)
       ELSE <<x>> \o sorted

RECURSIVE SortByTimeDesc(_)
SortByTimeDesc(a) ==
  IF a = <<>> THEN <<>>
  ELSE InsertByTime(SortByTimeDesc(SubSeq(a, 1, Len(a) - 1)), a[Len(a)])

findFeatured_unsorted(repo) ==
  ok(SliceTo(findPublished(repo, None).value, FeaturedMax))

findFeatured(repo) ==
  ok(SliceTo(SortByTimeDesc(findPublished(repo, None).value), FeaturedMax))

search_noTombstone(repo, criteria) ==
  LET live == MapValues(repo.contents)
      byAuthor == IF TruthyStr(criteria.authorId)
                  THEN SelectSeq(live, LAMBDA content :
                         content.authorId = Get(criteria.authorId))
                  ELSE live
      byState == IF IsSome(criteria.state)
                 THEN SelectSeq(byAuthor, LAMBDA content :
                        content.state = Get(criteria.state))
                 ELSE byAuthor
  IN ok(Window(byState, criteria))

search_ignoresState(repo, criteria) ==
  LET live == NotDeleted(repo)
      byAuthor == IF TruthyStr(criteria.authorId)
                  THEN SelectSeq(live, LAMBDA content :
                         content.authorId = Get(criteria.authorId))
                  ELSE live
  IN ok(Window(byAuthor, criteria))

search(repo, criteria) ==
  LET live == NotDeleted(repo)
      byAuthor == IF TruthyStr(criteria.authorId)
                  THEN SelectSeq(live, LAMBDA content :
                         content.authorId = Get(criteria.authorId))
                  ELSE live
      byState == IF IsSome(criteria.state)
                 THEN SelectSeq(byAuthor, LAMBDA content :
                        content.state = Get(criteria.state))
                 ELSE byAuthor
  IN ok(Window(byState, criteria))

save_append(repo, content) ==
  [contents |-> Append(repo.contents, [key |-> content.id, value |-> content]),
   deletedContents |-> repo.deletedContents,
   result |-> ok(None)]

save_ifAbsent(repo, content) ==
  [contents |-> IF MapHas(repo.contents, content.id) THEN repo.contents
                ELSE Append(repo.contents, [key |-> content.id, value |-> content]),
   deletedContents |-> repo.deletedContents,
   result |-> ok(None)]

save(repo, content) ==
  [contents |-> MapSet(repo.contents, content.id, content),
   deletedContents |-> repo.deletedContents,
   result |-> ok(None)]

softDelete_anyState(repo, id) ==
  LET content == MapGet(repo.contents, id) IN
  IF ~IsSome(content)
  THEN [contents |-> repo.contents, deletedContents |-> repo.deletedContents,
        result |-> err(NotFoundError)]
  ELSE [contents |-> repo.contents,
        deletedContents |-> repo.deletedContents \cup {id},
        result |-> ok(None)]

softDelete(repo, id) ==
  LET content == MapGet(repo.contents, id) IN
  IF ~IsSome(content)
  THEN [contents |-> repo.contents, deletedContents |-> repo.deletedContents,
        result |-> err(NotFoundError)]
  ELSE IF ~isPublished(Get(content).state)
  THEN [contents |-> repo.contents, deletedContents |-> repo.deletedContents,
        result |-> err(SoftDeleteError)]
  ELSE [contents |-> repo.contents,
        deletedContents |-> repo.deletedContents \cup {id},
        result |-> ok(None)]

delete_unguarded(repo, id) ==
  LET content == MapGet(repo.contents, id) IN
  IF ~IsSome(content)
  THEN [contents |-> repo.contents, deletedContents |-> repo.deletedContents,
        result |-> err(NotFoundError)]
  ELSE [contents |-> MapDelete(repo.contents, id),
        deletedContents |-> repo.deletedContents,
        result |-> ok(None)]

delete(repo, id) ==
  LET content == MapGet(repo.contents, id) IN
  IF ~IsSome(content)
  THEN [contents |-> repo.contents, deletedContents |-> repo.deletedContents,
        result |-> err(NotFoundError)]
  ELSE IF isPublished(Get(content).state)
  THEN [contents |-> repo.contents, deletedContents |-> repo.deletedContents,
        result |-> err(HardDeleteError)]
  ELSE [contents |-> MapDelete(repo.contents, id),
        deletedContents |-> repo.deletedContents,
        result |-> ok(None)]

countFeatured(repo) == ok(Len(findFeatured(repo).value))

exists_ignoresDeleted(repo, id) == ok(MapHas(repo.contents, id))

exists(repo, id) == ok(MapHas(repo.contents, id) /\ id \notin repo.deletedContents)

---------------------------------------------------------------------------
(* DefaultContentPermissions *)

canEdit(content, userId, userRole) ==
  IF userRole = "Author" /\ isOwnedBy(content, userId) THEN TRUE
  ELSE IF userRole = "Editor" \/ userRole = "Admin" THEN TRUE
  ELSE FALSE

canDelete_editorAny(content, userId, userRole) ==
  IF userRole = "Admin" THEN TRUE
  ELSE IF /\ userRole = "Author"
          /\ isOwnedBy(content, userId)
          /\ ~isPublished(content.state) THEN TRUE
  ELSE IF userRole = "Editor" THEN TRUE
  ELSE FALSE

canDelete(content, userId, userRole) ==
  IF userRole = "Admin" THEN TRUE
  ELSE IF /\ userRole = "Author"
          /\ isOwnedBy(content, userId)
          /\ ~isPublished(content.state) THEN TRUE
  ELSE IF userRole = "Editor" /\ ~isPublished(content.state) THEN TRUE
  ELSE FALSE

canPublish_ownerOnly(content, userId, userRole) ==
  IF isOwnedBy(content, userId) THEN TRUE
  ELSE IF userRole = "Admin" THEN TRUE
  ELSE FALSE

canPublish(content, userId, userRole) ==
  IF userRole = "Author" /\ isOwnedBy(content, userId) THEN TRUE
  ELSE IF userRole = "Editor" \/ userRole = "Admin" THEN TRUE
  ELSE FALSE

---------------------------------------------------------------------------
(* ContentService.  A use case awaits repository.findById, and goes on     *)
(* from the record found (found: None for null) against the repository as  *)
(* it is by then: the permission check, the entity calls and the call of   *)
(* save, softDelete or delete run without another await in between.  What  *)
(* runs after the lookup is modelled by the repository after it and the    *)
(* Result of the use case.                                                 *)

PublishDenied == <<"Permission denied: cannot publish content">>
DeleteDenied == <<"Permission denied: cannot delete content">>
EditDenied == <<"Permission denied: cannot edit content">>
ViewDenied == <<"Permission denied: cannot view other users' content">>

\* a use case that returns result without a repository call
Returns(repo, result) ==
  [contents |-> repo.contents, deletedContents |-> repo.deletedContents,
   result |-> result]

\* a use case that returns the Result of its repository call
ReturnsCall(out) == out

publishContent_unsaved(repo, found, userId, userRole, now) ==
  IF ~IsSome(found) THEN Returns(repo, err(NotFoundError))
  ELSE LET content == Get(found) IN
  IF ~canPublish(content, userId, userRole) THEN Returns(repo, err(PublishDenied))
  ELSE Returns(repo, publish(content, now).result)

publishContent_optimistic(repo, found, userId, userRole, now) ==
  IF ~IsSome(found) THEN Returns(repo, err(NotFoundError))
  ELSE LET content == Get(found) IN
  IF ~canPublish(content, userId, userRole) THEN Returns(repo, err(PublishDenied))
  ELSE LET publishResult == publish(content, now).result IN
  IF ~publishResult.ok THEN Returns(repo, publishResult)
  ELSE IF MapGet(repo.contents, content.id) # found
  THEN Returns(repo, err(<<"Content was modified">>))
  ELSE LET saved == save(repo, publishResult.value) IN
  [saved EXCEPT !.result = ok(publishResult.value)]

publishContent_savesFirst(repo, found, userId, userRole, now) ==
  IF ~IsSome(found) THEN Returns(repo, err(NotFoundError))
  ELSE LET content == Get(found) IN
  LET publishResult == publish(content, now).result IN
  IF ~publishResult.ok THEN Returns(repo, publishResult)
  ELSE LET saved == save(repo, publishResult.value) IN
  IF ~canPublish(content, userId, userRole)
  THEN [saved EXCEPT !.result = err(PublishDenied)]
  ELSE [saved EXCEPT !.result = ok(publishResult.value)]

publishContent(repo, found, userId, userRole, now) ==
  IF ~IsSome(found) THEN Returns(repo, err(NotFoundError))
  ELSE LET content == Get(found) IN
  IF ~canPublish(content, userId, userRole) THEN Returns(repo, err(PublishDenied))
  ELSE LET publishResult == publish(content, now).result IN
  IF ~publishResult.ok THEN Returns(repo, publishResult)
  ELSE LET saved == save(repo, publishResult.value) IN
  IF ~saved.result.ok THEN [saved EXCEPT !.result = err(saved.result.error)]
  ELSE [saved EXCEPT !.result = ok(publishResult.value)]

deleteContent_alwaysDelete(repo, found, userId, userRole) ==
  IF ~IsSome(found) THEN Returns(repo, err(NotFoundError))
  ELSE LET content == Get(found) IN
  IF ~canDelete(content, userId, userRole) THEN Returns(repo, err(DeleteDenied))
  ELSE ReturnsCall(delete(repo, content.id))

deleteContent(repo, found, userId, userRole) ==
  IF ~IsSome(found) THEN Returns(repo, err(NotFoundError))
  ELSE LET content == Get(found) IN
  IF ~canDelete(content, userId, userRole) THEN Returns(repo, err(DeleteDenied))
  ELSE IF isPublished(content.state)
  THEN ReturnsCall(softDelete(repo, content.id))
  ELSE ReturnsCall(delete(repo, content.id))

updateContent_partialSave(repo, found, updates, userId, userRole, now) ==
  IF ~IsSome(found) THEN Returns(repo, err(NotFoundError))
  ELSE LET content == Get(found) IN
  IF ~canEdit(content, userId, userRole) THEN Returns(repo, err(EditDenied))
  ELSE
  LET doTitle == IsSome(updates.title) /\ Truthy(Get(updates.title))
      titleResult == IF doTitle
                     THEN updateTitle(content, Get(updates.title), now).result
                     ELSE ok(content)
  IN
  IF ~titleResult.ok THEN Returns(repo, titleResult)
  ELSE
  LET doBody == IsSome(updates.body) /\ Truthy(Get(updates.body))
      bodyResult == IF doBody
                    THEN updateBody(titleResult.value, Get(updates.body), now).result
                    ELSE titleResult
  IN
  IF ~bodyResult.ok
  THEN [save(repo, titleResult.value) EXCEPT !.result = bodyResult]
  ELSE
  LET doExcerpt == IsSome(updates.excerpt) /\ Truthy(Get(updates.excerpt))
      excerptResult == IF doExcerpt
                       THEN updateExcerpt(bodyResult.value, Get(updates.excerpt), now).result
                       ELSE bodyResult
  IN [save(repo, excerptResult.value) EXCEPT !.result = ok(excerptResult.value)]

\* updates: [title, body, excerpt], each optional
updateContent(repo, found, updates, userId, userRole, now) ==
  IF ~IsSome(found) THEN Returns(repo, err(NotFoundError))
  ELSE LET content == Get(found) IN
  IF ~canEdit(content, userId, userRole) THEN Returns(repo, err(EditDenied))
  ELSE
  LET doTitle == IsSome(updates.title) /\ Truthy(Get(updates.title))
      titleResult == IF doTitle
                     THEN updateTitle(content, Get(updates.title), now).result
                     ELSE ok(content)
  IN
  IF ~titleResult.ok THEN Returns(repo, titleResult)
  ELSE
  LET doBody == IsSome(updates.body) /\ Truthy(Get(updates.body))
      bodyResult == IF doBody
                    THEN updateBody(titleResult.value, Get(updates.body), now).result
                    ELSE titleResult
  IN
  IF ~bodyResult.ok THEN Returns(repo, bodyResult)
  ELSE
  LET doExcerpt == IsSome(updates.excerpt) /\ Truthy(Get(updates.excerpt))
      excerptResult == IF doExcerpt
                       THEN updateExcerpt(bodyResult.value, Get(updates.excerpt), now).result
                       ELSE bodyResult
  IN
  IF ~excerptResult.ok THEN Returns(repo, excerptResult)
  ELSE LET saved == save(repo, excerptResult.value) IN
  IF ~saved.result.ok THEN [saved EXCEPT !.result = err(saved.result.error)]
  ELSE [saved EXCEPT !.result = ok(excerptResult.value)]

getContentByAuthor_anyone(repo, authorId, requestingUserId, userRole) ==
  Returns(repo, findByAuthor(repo, authorId))

getContentByAuthor(repo, authorId, requestingUserId, userRole) ==
  IF authorId # requestingUserId /\ userRole # "Editor" /\ userRole # "Admin"
  THEN Returns(repo, err(ViewDenied))
  ELSE Returns(repo, findByAuthor(repo, authorId))

getPublishedContent_zeroBased(repo, page, limit) ==
  LET offset == page * limit IN
  findPublished(repo, Some([NoCriteria EXCEPT !.limit = Some(limit),
                                              !.offset = Some(offset)]))

getPublishedContent(repo, page, limit) ==
  LET offset == (page - 1) * limit IN
  findPublished(repo, Some([NoCriteria EXCEPT !.limit = Some(limit),
                                              !.offset = Some(offset)]))

FeaturedLimit == 5

canAddFeaturedContent_inclusive(repo) ==
  LET countResult == countFeatured(repo) IN
  IF ~countResult.ok THEN countResult
  ELSE ok(countResult.value <= FeaturedLimit)

canAddFeaturedContent(repo) ==
  LET countResult == countFeatured(repo) IN
  IF ~countResult.ok THEN countResult
  ELSE ok(countResult.value < FeaturedLimit)

---------------------------------------------------------------------------
(* Inputs of the entity calls *)

ContentIds == {"content-1", "content-2"}
UserIds == {"user-1", "user-2"}

TitleInputs == {EmptyStr, Str("t", TitleMin - 1), Str("t", TitleMin),
                Str("t", TitleMax), Str("t", TitleMax + 1)}
BodyInputs == {EmptyStr, Str("x", BodyMin - 1), Str("x", BodyMin),
               Str("y", ExcerptLen + 1)}
ExcerptInputs == {EmptyStr, Str("e", 10)}

\* the arguments of updateTitle and updateBody in the lifecycle specification
NewTitles == {Str("t", TitleMin - 1), Str("u", TitleMin), Str("t", TitleMax + 1)}
NewBodies == {Str("x", BodyMin - 1), Str("y", ExcerptLen + 1)}

\* the props Content.create is called with in the lifecycle specification
EntityProps ==
  [id : ContentIds, title : {Str("t", TitleMin)}, body : {Str("x", BodyMin)},
   authorId : {"user-1"}, state : ContentStateType,
   excerpt : {None, Some(Str("e", 10))},
   publishedAt : {None, Some(0)}, updatedAt : {None}]

\* the props Content.create is called with in the factory specification
CreateProps ==
  [id : {"content-1"}, title : TitleInputs, body : BodyInputs,
   authorId : UserIds, state : {"draft", "published"},
   excerpt : {None} \cup {Some(e) : e \in ExcerptInputs},
   publishedAt : {None, Some(0)}, updatedAt : {None, Some(0)}]

NoProps == [id |-> "", title |-> EmptyStr, body |-> EmptyStr, authorId |-> "",
            state |-> "draft", excerpt |-> None, publishedAt |-> None,
            updatedAt |-> None]

NoCall == [op |-> "none", self |-> 0, before |-> None, props |-> NoProps,
           str |-> EmptyStr, target |-> "", now |-> 0, ok |-> TRUE,
           error |-> NoError, res |-> 0]

NoRepoCall == [op |-> "none", id |-> "", content |-> None, ok |-> TRUE,
               error |-> NoError]

Refs == 1..Len(heap)

\* the callers of the service, as in the service tests, and their roles;
\* "Viewer" stands for every role outside Author, Editor and Admin
Roles == {"Author", "Editor", "Admin", "Viewer"}
Callers == {"p1", "p2"}

NoUpdates == [title |-> None, body |-> None, excerpt |-> None]

NoServiceCall ==
  [op |-> "none", id |-> "", userId |-> "", role |-> "", updates |-> NoUpdates,
   authorId |-> "", found |-> None, stored |-> None, now |-> 0, ok |-> TRUE,
   error |-> NoError, value |-> None, list |-> <<>>]

Idle == [NoServiceCall EXCEPT !.op = "idle"]

---------------------------------------------------------------------------
(* Entity calls.  Content.create is the caller's first call; from then on  *)
(* the caller holds the instances heap[1..Len(heap)].  A                   *)
(* call on heap[r] leaves in heap[r] what the method leaves in its         *)
(* receiver; after a successful call the caller holds the receiver, as     *)
(* heap[1], and the instance of the Result, freshly allocated, as heap[2]. *)

Init ==
  /\ heap = <<>>
  /\ stamp = <<>>
  /\ clock = 1
  /\ last = NoCall
  /\ contents = <<>>
  /\ deletedContents = {}
  /\ rlast = NoRepoCall
  /\ slast = NoServiceCall
  /\ calls = [p \in Callers |-> Idle]

ServiceUnchanged == UNCHANGED <<slast, calls>>
RepoUnchanged == UNCHANGED <<contents, deletedContents, rlast>> /\ ServiceUnchanged
EntityUnchanged == UNCHANGED <<heap, stamp, clock, last>>

\* time passes between two calls
Tick ==
  /\ clock < MaxClock
  /\ clock' = clock + 1
  /\ UNCHANGED <<heap, stamp, last>>
  /\ RepoUnchanged

CreateWith(P) ==
  \E props \in P :
    LET r == create(props, clock) IN
    /\ heap = <<>>
    /\ heap' = IF r.ok THEN <<r.value>> ELSE heap
    /\ stamp' = IF r.ok THEN <<r.value.publishedAt>> ELSE stamp
    /\ last' = [NoCall EXCEPT !.op = "create", !.props = props, !.now = clock,
                              !.ok = r.ok,
                              !.error = IF r.ok THEN NoError ELSE r.error,
                              !.res = IF r.ok THEN 1 ELSE 0]
    /\ UNCHANGED clock
    /\ RepoUnchanged

\* the effect of a method call on heap[r] whose outcome is out
Call(op, r, str, target, out) ==
  /\ heap' = IF out.result.ok
             THEN <<out.this, out.result.value>>
             ELSE [heap EXCEPT ![r] = out.this]
  /\ stamp' = IF out.result.ok
              THEN <<stamp[r], IF IsSome(stamp[r]) THEN stamp[r]
                               ELSE out.result.value.publishedAt>>
              ELSE stamp
  /\ last' = [NoCall EXCEPT !.op = op,
                            !.self = IF out.result.ok THEN 1 ELSE r,
                            !.before = Some(heap[r]),
                            !.str = str, !.target = target, !.now = clock,
                            !.ok = out.result.ok,
                            !.error = IF out.result.ok THEN NoError
                                      ELSE out.result.error,
                            !.res = IF out.result.ok THEN 2 ELSE 0]
  /\ UNCHANGED clock
  /\ RepoUnchanged

Create == CreateWith(EntityProps)

UpdateTitle ==
  \E r \in Refs, t \in NewTitles :
    Call("updateTitle", r, t, "", updateTitle(heap[r], t, clock))

UpdateBody ==
  \E r \in Refs, b \in NewBodies :
    Call("updateBody", r, b, "", updateBody(heap[r], b, clock))

UpdateExcerpt ==
  \E r \in Refs, e \in ExcerptInputs :
    Call("updateExcerpt", r, e, "", updateExcerpt(heap[r], e, clock))

ChangeState ==
  \E r \in Refs, s \in ContentStateType :
    Call("changeState", r, EmptyStr, s, changeState(heap[r], s, clock))

Publish ==
  \E r \in Refs :
    Call("publish", r, EmptyStr, "published", publish(heap[r], clock))

Unpublish ==
  \E r \in Refs :
    Call("unpublish", r, EmptyStr, "private", unpublish(heap[r], clock))

Archive ==
  \E r \in Refs :
    Call("archive", r, EmptyStr, "archived", archive(heap[r], clock))

Next ==
  \/ Tick
  \/ Create
  \/ UpdateTitle
  \/ UpdateBody
  \/ UpdateExcerpt
  \/ ChangeState
  \/ Publish
  \/ Unpublish
  \/ Archive

Spec == Init /\ [][Next]_vars

\* Content.create alone, over every combination of its inputs
CreateAny == CreateWith(CreateProps)

NextCreate ==
  \/ Tick
  \/ CreateAny

SpecCreate == Init /\ [][NextCreate]_vars

---------------------------------------------------------------------------
(* Repository calls *)

\* the repository as it stands
Repo == [contents |-> contents, deletedContents |-> deletedContents]

\* the props of the contents that are saved: Content.create(props), then save
RepoProps ==
  [id : ContentIds, title : {Str("t", TitleMin)}, body : {Str("x", BodyMin)},
   authorId : UserIds, state : ContentStateType, excerpt : {None},
   publishedAt : {None} \cup {Some(t) : t \in 1..MaxClock},
   updatedAt : {Some(0)}]

Saveable == {create(props, 0).value : props \in RepoProps}

RepoCall(op, id, content, out) ==
  /\ contents' = out.contents
  /\ deletedContents' = out.deletedContents
  /\ rlast' = [op |-> op, id |-> id, content |-> content, ok |-> out.result.ok,
               error |-> IF out.result.ok THEN NoError ELSE out.result.error]
  /\ EntityUnchanged
  /\ ServiceUnchanged

Save ==
  \E content \in Saveable :
    RepoCall("save", content.id, Some(content), save(Repo, content))

SoftDelete ==
  \E id \in ContentIds :
    RepoCall("softDelete", id, None, softDelete(Repo, id))

Delete ==
  \E id \in ContentIds :
    RepoCall("delete", id, None, delete(Repo, id))

NextRepo ==
  \/ Save
  \/ SoftDelete
  \/ Delete

SpecRepo == Init /\ [][NextRepo]_vars

---------------------------------------------------------------------------
(* Properties of ContentState and Content *)

Mutators == {"updateTitle", "updateBody", "updateExcerpt", "changeState",
             "publish", "unpublish", "archive"}
StateChanges == {"changeState", "publish", "unpublish", "archive"}

\* C1: for every ordered pair (a, b) of the four states, a.canTransitionTo(b)
\* is false exactly when a is archived and b is published; every other pair,
\* self-loops included, is a legal transition.
\* Checked for the state a of every instance held (each of the four states
\* is the state of some reachable instance) against every target b.
C1_TransitionTable ==
  \A r \in Refs, b \in ContentStateType :
    LET a == heap[r].state IN
    canTransitionTo(a, b) <=> ~(a = "archived" /\ b = "published")

\* changeState(published) was called on an archived instance and refused
C1_Witness ==
  /\ last.op = "changeState"
  /\ Get(last.before).state = "archived"
  /\ last.target = "published"
  /\ ~last.ok

\* C2: changeState(target) fails, with the transition error naming both
\* states, exactly when the current state cannot transition to target; on
\* success the new instance is in state target, its publishedAt is the time
\* of the call if target is published and publishedAt was unset, and the
\* prior publishedAt in every other case.
C2_ChangeState ==
  last.op = "changeState" =>
    LET before == Get(last.before) IN
    /\ last.ok <=> canTransitionTo(before.state, last.target)
    /\ ~last.ok => last.error = TransitionError(before.state, last.target)
    /\ last.ok =>
         /\ heap[last.res].state = last.target
         /\ heap[last.res].publishedAt =
              IF last.target = "published" /\ ~IsSome(before.publishedAt)
              THEN Some(last.now)
              ELSE before.publishedAt

\* changeState(published) stamped an instance that had no publishedAt
C2_Witness ==
  /\ last.op = "changeState"
  /\ last.ok
  /\ last.target = "published"
  /\ ~IsSome(Get(last.before).publishedAt)
  /\ heap[last.res].publishedAt = Some(last.now)

\* C3: along any chain of instances derived from one another by the state
\* changes and the field updates, once publishedAt is set it keeps that
\* value: it is never changed and never cleared.
C3_PublishedAtSetOnce ==
  \A r \in Refs : IsSome(stamp[r]) => heap[r].publishedAt = stamp[r]

\* publish, unpublish and publish again at a later time: the first stamp stays
C3_Witness ==
  /\ last.op = "publish"
  /\ last.ok
  /\ Get(last.before).state = "private"
  /\ Get(last.before).publishedAt = Some(1)
  /\ last.now > 1
  /\ heap[last.res].state = "published"
  /\ heap[last.res].publishedAt = Some(1)

\* C4: Content.create succeeds if and only if the title length is in
\* [5, 100] and the body length is at least 100, and fails with the title or
\* body error otherwise; on success the excerpt is the supplied excerpt when
\* one is supplied and the first 150 characters of the body when none is.
C4_Create ==
  last.op = "create" =>
    LET props == last.props IN
    /\ last.ok <=> /\ Length(props.title) >= 5
                   /\ Length(props.title) <= 100
                   /\ Length(props.body) >= 100
    /\ ~last.ok => last.error \in {TitleError, BodyError}
    /\ last.ok =>
         heap[last.res].excerpt =
           IF IsSome(props.excerpt) THEN Get(props.excerpt)
           ELSE Substring0(props.body, 150)

\* C5: every mutator leaves the instance it is called on unchanged in every
\* field, whether it succeeds or fails; a successful call returns another
\* instance, with the same id and the same authorId; a failing call returns
\* no instance.
C5_Immutable ==
  last.op \in Mutators =>
    /\ heap[last.self] = Get(last.before)
    /\ last.ok =>
         /\ last.res # last.self
         /\ heap[last.res].id = Get(last.before).id
         /\ heap[last.res].authorId = Get(last.before).authorId
    /\ ~last.ok => last.res = 0

\* updateTitle succeeded: the receiver keeps its title, the new instance has the new one
C5_Witness ==
  /\ last.op = "updateTitle"
  /\ last.ok
  /\ heap[last.res].title = last.str
  /\ heap[last.self].title # last.str

---------------------------------------------------------------------------
(* Properties of InMemoryContentRepository *)

\* the record stored under id, tombstoned or not
Stored(id) == MapGet(contents, id)

\* C6: for an id with a stored record, softDelete(id) succeeds if and only if
\* the record is published and delete(id) succeeds if and only if it is not;
\* for an id with no stored record both fail with the not-found error.  So a
\* record is physically removed only while it is not published, and an id is
\* tombstoned only while its record is published.
C6_Step ==
  LET id == rlast'.id
      stored == Stored(id)
  IN
  /\ rlast'.op = "softDelete" =>
       /\ IsSome(stored) => (rlast'.ok <=> isPublished(Get(stored).state))
       /\ ~IsSome(stored) => (~rlast'.ok /\ rlast'.error = NotFoundError)
  /\ rlast'.op = "delete" =>
       /\ IsSome(stored) => (rlast'.ok <=> ~isPublished(Get(stored).state))
       /\ ~IsSome(stored) => (~rlast'.ok /\ rlast'.error = NotFoundError)
  /\ \A k \in ContentIds :
       /\ (MapHas(contents, k) /\ ~MapHas(contents', k)) =>
            ~isPublished(Get(Stored(k)).state)
       /\ (k \notin deletedContents /\ k \in deletedContents') =>
            (MapHas(contents, k) /\ isPublished(Get(Stored(k)).state))

C6_DeleteAsymmetry == [][C6_Step]_vars

\* delete was refused because the stored record is published
C6_Witness ==
  /\ rlast.op = "delete"
  /\ ~rlast.ok
  /\ rlast.error = HardDeleteError
  /\ IsSome(Stored(rlast.id))
  /\ isPublished(Get(Stored(rlast.id)).state)

\* C7: in the state right after a successful softDelete(id) or delete(id),
\* whatever repository calls came before, findById(id) is success with null
\* and exists(id) is false.
C7_GoneAfterDelete ==
  (rlast.op \in {"softDelete", "delete"} /\ rlast.ok) =>
    /\ findById(Repo, rlast.id) = ok(None)
    /\ exists(Repo, rlast.id) = ok(FALSE)

\* softDelete succeeded: the record is still stored and is hidden
C7_Witness ==
  /\ rlast.op = "softDelete"
  /\ rlast.ok
  /\ MapHas(contents, rlast.id)

\* the criteria the finders are called with
CriteriaInputs ==
  [authorId : {None, Some("user-1")},
   state : {None, Some("published"), Some("draft")},
   publishedAfter : {None, Some(2)},
   publishedBefore : {None, Some(1)},
   limit : {None, Some(1)},
   offset : {None, Some(1)}]

\* the repository with the records of the soft-deleted ids taken out
Purged ==
  [contents |-> SelectSeq(contents, LAMBDA e : e.key \notin deletedContents),
   deletedContents |-> {}]

\* C8: in every reachable state a record whose id has been soft-deleted is
\* returned or counted by no finder: findById, findByAuthor, findPublished,
\* findFeatured, search, countFeatured and exists answer as they would if the
\* record were absent.
C8_TombstonesHidden ==
  /\ \A id \in ContentIds :
       /\ findById(Repo, id) = findById(Purged, id)
       /\ exists(Repo, id) = exists(Purged, id)
       /\ id \in deletedContents =>
            /\ findById(Repo, id) = ok(None)
            /\ exists(Repo, id) = ok(FALSE)
  /\ \A a \in UserIds : findByAuthor(Repo, a) = findByAuthor(Purged, a)
  /\ findPublished(Repo, None) = findPublished(Purged, None)
  /\ findFeatured(Repo) = findFeatured(Purged)
  /\ countFeatured(Repo) = countFeatured(Purged)
  /\ \A c \in CriteriaInputs :
       /\ findPublished(Repo, Some(c)) = findPublished(Purged, Some(c))
       /\ LET found == search(Repo, c).value IN
          /\ found = search(Purged, c).value
          /\ \A i \in 1..Len(found) : found[i].id \notin deletedContents

\* a published record is tombstoned while another published record is live
C8_Witness ==
  /\ \E id \in deletedContents :
       /\ IsSome(Stored(id))
       /\ isPublished(Get(Stored(id)).state)
  /\ Len(findPublished(Repo, None).value) = 1
  /\ Len(contents) = 2

\* C9 as stated: after save(c) succeeds, whatever repository calls came
\* before (softDelete and delete on the same id included), findById(c.id)
\* returns c and exists(c.id) is true.
C9_SaveThenFind ==
  (rlast.op = "save" /\ rlast.ok) =>
    /\ findById(Repo, rlast.id) = ok(rlast.content)
    /\ exists(Repo, rlast.id) = ok(TRUE)

\* C9 as amended: save(c) always succeeds and stores c under c.id; findById(c.id)
\* returns c and exists(c.id) is true if and only if c.id has not been
\* soft-deleted; for a soft-deleted id findById(c.id) is success with null
\* and exists(c.id) is false.
C9_SaveThenFindUnlessTombstoned ==
  rlast.op = "save" =>
    /\ rlast.ok
    /\ Stored(rlast.id) = rlast.content
    /\ IF rlast.id \notin deletedContents
       THEN /\ findById(Repo, rlast.id) = ok(rlast.content)
            /\ exists(Repo, rlast.id) = ok(TRUE)
       ELSE /\ findById(Repo, rlast.id) = ok(None)
            /\ exists(Repo, rlast.id) = ok(FALSE)

\* a content was saved under an id that was soft-deleted before
C9_Witness ==
  /\ rlast.op = "save"
  /\ rlast.ok
  /\ rlast.id \in deletedContents
  /\ Stored(rlast.id) = rlast.content

\* the repository after a call
After(out) == [contents |-> out.contents, deletedContents |-> out.deletedContents]

\* C10: save is an idempotent upsert keyed by id: saving the same content
\* twice leaves the repository as saving it once does, saving a content whose
\* id is stored replaces that record in its place, and in every reachable
\* state the repository holds at most one record per id.
C10_Upsert ==
  /\ \A i \in 1..Len(contents), j \in 1..Len(contents) :
       contents[i].key = contents[j].key => i = j
  /\ \A i \in 1..Len(contents) : contents[i].value.id = contents[i].key
  /\ \A c \in Saveable :
       LET once == After(save(Repo, c))
           twice == After(save(once, c))
       IN /\ twice = once
          /\ MapGet(once.contents, c.id) = Some(c)
          /\ \A k \in ContentIds \ {c.id} :
               MapGet(once.contents, k) = MapGet(contents, k)
          /\ once.deletedContents = deletedContents
          /\ Len(once.contents) =
               IF MapHas(contents, c.id) THEN Len(contents) ELSE Len(contents) + 1

\* the last save replaced the record of an id that was stored: it kept the
\* first place although another id was inserted after it
C10_Witness ==
  /\ rlast.op = "save"
  /\ Len(contents) = 2
  /\ contents[1].key = rlast.id
  /\ Some(contents[1].value) = rlast.content

\* C11: after a successful delete(id) the id is free for normal reuse: a
\* later save(c) with c.id = id makes findById(id) return c and exists(id)
\* true, whatever calls came before the delete.  Stated for the save that
\* follows the delete.
C11_ReuseAfterDelete ==
  (rlast.op = "delete" /\ rlast.ok) =>
    \A c \in Saveable :
      c.id = rlast.id =>
        LET after == After(save(Repo, c)) IN
        /\ findById(after, c.id) = ok(Some(c))
        /\ exists(after, c.id) = ok(TRUE)

---------------------------------------------------------------------------
(* ContentService calls, one at a time: each use case runs from its lookup *)
(* to its Result before the next call starts.  The repository is filled    *)
(* beforehand by Content.create and repository.save.                       *)

ServiceIds == {"content-1"}

\* the contents the repository is filled with
SeedProps ==
  [id : ServiceIds, title : {Str("t", TitleMin)}, body : {Str("x", BodyMin)},
   authorId : {"user-1"}, state : ContentStateType, excerpt : {None},
   publishedAt : {None}, updatedAt : {Some(0)}]

\* the updates updateContent is called with
UpdateInputs ==
  { NoUpdates,
    [NoUpdates EXCEPT !.title = Some(Str("u", TitleMin))],
    [NoUpdates EXCEPT !.title = Some(Str("t", TitleMin - 1))],
    [NoUpdates EXCEPT !.body = Some(Str("y", ExcerptLen + 1))],
    [NoUpdates EXCEPT !.body = Some(Str("x", BodyMin - 1))],
    [NoUpdates EXCEPT !.excerpt = Some(Str("e", 10))],
    [NoUpdates EXCEPT !.title = Some(EmptyStr)],
    [NoUpdates EXCEPT !.body = Some(EmptyStr)],
    [NoUpdates EXCEPT !.excerpt = Some(EmptyStr)],
    [title |-> Some(Str("u", TitleMin)), body |-> Some(Str("x", BodyMin - 1)),
     excerpt |-> None],
    [title |-> Some(Str("t", TitleMax + 1)), body |-> Some(Str("x", BodyMin - 1)),
     excerpt |-> Some(Str("e", 10))],
    [title |-> Some(Str("u", TitleMin)), body |-> Some(Str("y", ExcerptLen + 1)),
     excerpt |-> Some(Str("x", BodyMin))] }

Seed ==
  /\ slast.op = "none"
  /\ \E props \in SeedProps :
       LET content == create(props, clock).value IN
       RepoCall("save", content.id, Some(content), save(Repo, content))

\* a use case came to its Result: out is what it did from the record found
Completes(call, out) ==
  /\ contents' = out.contents
  /\ deletedContents' = out.deletedContents
  /\ slast' = [call EXCEPT !.now = clock,
                           !.stored = MapGet(contents, call.id),
                           !.ok = out.result.ok,
                           !.error = IF out.result.ok THEN NoError
                                     ELSE out.result.error,
                           !.value = IF out.result.ok /\ call.op \in {"publishContent", "updateContent"}
                                     THEN Some(out.result.value) ELSE None,
                           !.list = IF out.result.ok /\ call.op = "getContentByAuthor"
                                    THEN out.result.value ELSE <<>>]
  /\ UNCHANGED rlast
  /\ EntityUnchanged

\* a use case ran from its lookup to its Result
ServiceStep(call, out) == Completes(call, out) /\ UNCHANGED calls

\* the lookup of a use case: await this.repository.findById(contentId)
Lookup(op, id, userId, role, updates) ==
  [NoServiceCall EXCEPT !.op = op, !.id = id, !.userId = userId, !.role = role,
                        !.updates = updates, !.found = findById(Repo, id).value]

\* what a use case does from the record it found
Outcome(call) ==
  CASE call.op = "publishContent" ->
         publishContent(Repo, call.found, call.userId, call.role, clock)
    [] call.op = "deleteContent" ->
         deleteContent(Repo, call.found, call.userId, call.role)
    [] call.op = "updateContent" ->
         updateContent(Repo, call.found, call.updates, call.userId, call.role, clock)

PublishContent ==
  \E id \in ServiceIds, userId \in UserIds, role \in Roles :
    LET call == Lookup("publishContent", id, userId, role, NoUpdates)
    IN ServiceStep(call, Outcome(call))

DeleteContent ==
  \E id \in ServiceIds, userId \in UserIds, role \in Roles :
    LET call == Lookup("deleteContent", id, userId, role, NoUpdates)
    IN ServiceStep(call, Outcome(call))

UpdateContent ==
  \E id \in ServiceIds, userId \in UserIds, role \in Roles, updates \in UpdateInputs :
    LET call == Lookup("updateContent", id, userId, role, updates)
    IN ServiceStep(call, Outcome(call))

GetContentByAuthor ==
  \E authorId \in UserIds, userId \in UserIds, role \in Roles :
    LET call == [NoServiceCall EXCEPT !.op = "getContentByAuthor",
                                      !.authorId = authorId,
                                      !.userId = userId, !.role = role]
    IN ServiceStep(call, getContentByAuthor(Repo, authorId, userId, role))

\* time passes while the repository is filled; the calls that follow run at
\* one instant, any time up to MaxClock after the first content was created
ServiceTick ==
  /\ slast.op = "none"
  /\ clock < MaxClock
  /\ clock' = clock + 1
  /\ UNCHANGED <<heap, stamp, last>>
  /\ RepoUnchanged

NextService ==
  \/ Seed
  \/ ServiceTick
  \/ PublishContent
  \/ DeleteContent
  \/ UpdateContent
  \/ GetContentByAuthor

SpecService == Init /\ [][NextService]_vars

---------------------------------------------------------------------------
(* ContentService calls in flight together.  A use case looks its content  *)
(* up when it is called (findById runs to its end inside the call) and     *)
(* goes on from the record found after its await, when other calls may     *)
(* have come to their Result.                                              *)

\* who calls: the author of the content, another author, an editor, an admin
Principals ==
  { [userId |-> "user-1", role |-> "Author"],
    [userId |-> "user-2", role |-> "Author"],
    [userId |-> "user-2", role |-> "Editor"],
    [userId |-> "user-3", role |-> "Admin"] }

ConcUpdates == { [NoUpdates EXCEPT !.title = Some(Str("u", TitleMin))] }

ConcCalls ==
  { Lookup(op, id, who.userId, who.role, NoUpdates) :
      op \in {"publishContent", "deleteContent"}, id \in ServiceIds, who \in Principals }
  \cup
  { Lookup("updateContent", id, who.userId, who.role, updates) :
      id \in ServiceIds, who \in Principals, updates \in ConcUpdates }

ConcSeed ==
  /\ \A p \in Callers : calls[p] = Idle
  /\ Seed

ConcTick ==
  /\ \A p \in Callers : calls[p] = Idle
  /\ ServiceTick

\* caller p calls a use case, which runs up to its await
Begin(p) ==
  /\ calls[p] = Idle
  /\ contents # <<>>
  /\ \E call \in ConcCalls : calls' = [calls EXCEPT ![p] = call]
  /\ UNCHANGED <<contents, deletedContents, rlast, slast>>
  /\ EntityUnchanged

\* the use case of caller p goes on after its await, to its Result
Resume(p) ==
  /\ calls[p] # Idle
  /\ Completes(calls[p], Outcome(calls[p]))
  /\ calls' = [calls EXCEPT ![p] = Idle]

NextConc ==
  \/ ConcSeed
  \/ ConcTick
  \/ \E p \in Callers : Begin(p)
  \/ \E p \in Callers : Resume(p)

SpecConc == Init /\ [][NextConc]_vars

---------------------------------------------------------------------------
(* The repository filled with more published contents than are featured:   *)
(* contents are saved under new ids, one after the other, and soft-deleted. *)

FeaturedIds ==
  <<"content-1", "content-2", "content-3", "content-4", "content-5", "content-6">>

\* published with and without a publishedAt (after the epoch), and a draft
FeaturedProps ==
  [id : {FeaturedIds[i] : i \in 1..Len(FeaturedIds)},
   title : {Str("t", TitleMin)}, body : {Str("x", BodyMin)},
   authorId : {"user-1"}, state : {"published"}, excerpt : {None},
   publishedAt : {None, Some(1), Some(2)}, updatedAt : {Some(0)}]
  \cup
  [id : {FeaturedIds[i] : i \in 1..Len(FeaturedIds)},
   title : {Str("t", TitleMin)}, body : {Str("x", BodyMin)},
   authorId : {"user-1"}, state : {"draft"}, excerpt : {None},
   publishedAt : {None}, updatedAt : {Some(0)}]

SaveNext ==
  /\ Len(contents) < Len(FeaturedIds)
  /\ \E props \in FeaturedProps :
       /\ props.id = FeaturedIds[Len(contents) + 1]
       /\ LET content == create(props, 0).value IN
          RepoCall("save", content.id, Some(content), save(Repo, content))

SoftDeleteFeatured ==
  \E i \in 1..Len(FeaturedIds) :
    RepoCall("softDelete", FeaturedIds[i], None, softDelete(Repo, FeaturedIds[i]))

NextFeatured ==
  \/ SaveNext
  \/ SoftDeleteFeatured

SpecFeatured == Init /\ [][NextFeatured]_vars

---------------------------------------------------------------------------
\* the contents the repository holds, tombstoned or not
Held == {contents[i].value : i \in 1..Len(contents)}

\* C12: canDelete is true exactly when the role is Admin, or the role is
\* Author and the user owns the content and it is not published, or the role
\* is Editor and the content is not published; false in every other case,
\* roles outside Author, Editor and Admin included.
C12_CanDelete ==
  \A content \in Held, userId \in UserIds, userRole \in Roles :
    canDelete(content, userId, userRole) <=>
      \/ userRole = "Admin"
      \/ /\ userRole = "Author"
         /\ content.authorId = userId
         /\ content.state # "published"
      \/ /\ userRole = "Editor"
         /\ content.state # "published"

\* an Editor was refused the deletion of a published content
C12_Witness ==
  /\ slast.op = "deleteContent"
  /\ slast.role = "Editor"
  /\ IsSome(slast.found)
  /\ Get(slast.found).state = "published"
  /\ ~slast.ok
  /\ slast.error = DeleteDenied

\* C13: canEdit and canPublish return the same value: true exactly when the
\* role is Author and the user owns the content, or the role is Editor or
\* Admin; the state of the content plays no part.
C13_CanEditCanPublish ==
  \A content \in Held, userId \in UserIds, userRole \in Roles :
    LET allowed == \/ userRole = "Author" /\ content.authorId = userId
                   \/ userRole \in {"Editor", "Admin"}
    IN /\ canEdit(content, userId, userRole) = allowed
       /\ canPublish(content, userId, userRole) = allowed
       /\ \A state \in ContentStateType :
            /\ canEdit([content EXCEPT !.state = state], userId, userRole) = allowed
            /\ canPublish([content EXCEPT !.state = state], userId, userRole) = allowed

\* an Editor who does not own the content published it, and an Author who
\* does not own it was refused
C13_Witness ==
  /\ slast.op = "publishContent"
  /\ IsSome(slast.found)
  /\ Get(slast.found).authorId # slast.userId
  /\ \/ slast.role = "Editor" /\ slast.ok
     \/ slast.role = "Author" /\ slast.error = PublishDenied

---------------------------------------------------------------------------
\* C14: publishContent, run from its lookup to its Result with no other call
\* in between, fails with "Content not found" when findById finds nothing;
\* else with the permission error when canPublish refuses; else with the
\* transition error when the stored content is archived; else it succeeds,
\* the returned content is published with publishedAt set, and the stored
\* record equals the returned content.
C14_PublishContent ==
  slast.op = "publishContent" =>
    IF ~IsSome(slast.found)
    THEN ~slast.ok /\ slast.error = NotFoundError
    ELSE LET content == Get(slast.found)
             allowed == \/ slast.role = "Author" /\ content.authorId = slast.userId
                        \/ slast.role \in {"Editor", "Admin"}
         IN
         IF ~allowed
         THEN ~slast.ok /\ slast.error = PublishDenied
         ELSE IF content.state = "archived"
         THEN ~slast.ok /\ slast.error = TransitionError("archived", "published")
         ELSE /\ slast.ok
              /\ IsSome(slast.value)
              /\ Get(slast.value).state = "published"
              /\ IsSome(Get(slast.value).publishedAt)
              /\ Stored(slast.id) = slast.value
              /\ findById(Repo, slast.id) = ok(slast.value)

\* an Author published their own draft
C14_Witness ==
  /\ slast.op = "publishContent"
  /\ slast.ok
  /\ slast.role = "Author"
  /\ Get(slast.found).state = "draft"
  /\ Get(slast.found).publishedAt = None
  /\ Stored(slast.id) = slast.value

---------------------------------------------------------------------------
\* a field of the updates that updateContent is given with a value to apply;
\* what becomes of an empty string is the matter of C29
Supplied(field) == IsSome(field) /\ Length(Get(field)) > 0

\* C15: updateContent applies the supplied fields in the order title, body,
\* excerpt and saves nothing partial: a title out of range fails the call
\* with the title error whatever the other fields are, a body too short
\* fails it with the body error once the title has passed, and whenever the
\* call fails the repository, and with it the stored record for the id, is
\* what it was before the call; when all pass, the excerpt is applied after
\* the body.
C15_Step ==
  (/\ slast'.op = "updateContent"
   /\ IsSome(slast'.found)
   /\ \/ slast'.role = "Author" /\ Get(slast'.found).authorId = slast'.userId
      \/ slast'.role \in {"Editor", "Admin"})
  =>
  LET updates == slast'.updates
      titleFails == /\ Supplied(updates.title)
                    /\ \/ Length(Get(updates.title)) < TitleMin
                       \/ Length(Get(updates.title)) > TitleMax
      bodyFails == /\ Supplied(updates.body)
                   /\ Length(Get(updates.body)) < BodyMin
  IN
  /\ titleFails => ~slast'.ok /\ slast'.error = TitleError
  /\ (~titleFails /\ bodyFails) => ~slast'.ok /\ slast'.error = BodyError
  /\ (~titleFails /\ ~bodyFails) => slast'.ok
  /\ ~slast'.ok =>
       /\ contents' = contents
       /\ deletedContents' = deletedContents
       /\ MapGet(contents', slast'.id) = slast'.found
  /\ (slast'.ok /\ Supplied(updates.excerpt)) =>
       Get(MapGet(contents', slast'.id)).excerpt = Get(updates.excerpt)

C15_NoPartialSave == [][C15_Step]_vars

\* a valid title came with a too-short body: the call failed with the body
\* error and the stored record still has its old title
C15_Witness ==
  /\ slast.op = "updateContent"
  /\ Supplied(slast.updates.title)
  /\ Supplied(slast.updates.body)
  /\ slast.error = BodyError
  /\ IsSome(slast.found)
  /\ Get(slast.found).title # Get(slast.updates.title)
  /\ Stored(slast.id) = slast.found

---------------------------------------------------------------------------
\* C16: deleteContent, run with no other call in between, once the lookup
\* found a record and canDelete allowed the caller, calls softDelete when
\* the record is published and delete otherwise, and the call succeeds;
\* afterwards findById finds nothing for the id, a published record is kept
\* in the map behind a tombstone, a record that is not published is gone
\* from the map, and a second deleteContent of the id fails with "Content
\* not found".
C16_Step ==
  /\ (/\ slast'.op = "deleteContent"
      /\ IsSome(slast'.found)
      /\ LET content == Get(slast'.found) IN
         \/ slast'.role = "Admin"
         \/ /\ slast'.role = "Author"
            /\ content.authorId = slast'.userId
            /\ content.state # "published"
         \/ slast'.role = "Editor" /\ content.state # "published")
     =>
     LET id == slast'.id
         after == [contents |-> contents', deletedContents |-> deletedContents']
     IN
     /\ slast'.ok
     /\ findById(after, id) = ok(None)
     /\ IF Get(slast'.found).state = "published"
        THEN /\ id \notin deletedContents
             /\ deletedContents' = deletedContents \cup {id}
             /\ contents' = contents
             /\ MapGet(contents', id) = slast'.found
        ELSE /\ MapHas(contents, id)
             /\ ~MapHas(contents', id)
             /\ deletedContents' = deletedContents
  /\ (/\ slast.op = "deleteContent"
      /\ slast.ok
      /\ slast'.op = "deleteContent"
      /\ slast'.id = slast.id)
     => (~slast'.ok /\ slast'.error = NotFoundError)

C16_DeleteContent == [][C16_Step]_vars

\* an Admin deleted a published content: it is kept behind its tombstone
C16_Witness ==
  /\ slast.op = "deleteContent"
  /\ slast.ok
  /\ Get(slast.found).state = "published"
  /\ slast.id \in deletedContents
  /\ Stored(slast.id) = slast.found
  /\ findById(Repo, slast.id) = ok(None)

---------------------------------------------------------------------------
\* C18: getContentByAuthor fails with the permission error exactly when the
\* author asked for is not the requesting user and the role is neither
\* Editor nor Admin; otherwise it returns exactly the records of that author
\* that are not tombstoned; it never changes the repository.
C18_Step ==
  slast'.op = "getContentByAuthor" =>
    LET denied == /\ slast'.authorId # slast'.userId
                  /\ slast'.role \notin {"Editor", "Admin"}
        list == slast'.list
        mine == {i \in 1..Len(contents) :
                   /\ contents[i].value.authorId = slast'.authorId
                   /\ contents[i].key \notin deletedContents}
    IN
    /\ contents' = contents
    /\ deletedContents' = deletedContents
    /\ IF denied
       THEN ~slast'.ok /\ slast'.error = ViewDenied
       ELSE /\ slast'.ok
            /\ Len(list) = Cardinality(mine)
            /\ {list[i] : i \in 1..Len(list)} = {contents[i].value : i \in mine}

C18_GetContentByAuthor == [][C18_Step]_vars

\* an Editor was given the content of another user
C18_Witness ==
  /\ slast.op = "getContentByAuthor"
  /\ slast.ok
  /\ slast.role = "Editor"
  /\ slast.authorId # slast.userId
  /\ Len(slast.list) = 1
  /\ slast.list[1].authorId = slast.authorId

---------------------------------------------------------------------------
\* C17: in every interleaving of publishContent, updateContent and
\* deleteContent, a content that is stored published and found by findById
\* stops being found, or leaves the map, only in a step in which a
\* deleteContent called with role Admin comes to a successful Result, and
\* then by the tombstone of softDelete, the record staying in the map; no
\* deleteContent of an Editor or an Author hides or removes a content that
\* is published when the step is taken.
C17_Step ==
  \A id \in ServiceIds :
    (/\ IsSome(findById(Repo, id).value)
     /\ Get(Stored(id)).state = "published"
     /\ \/ findById([contents |-> contents', deletedContents |-> deletedContents'],
                    id).value = None
        \/ ~MapHas(contents', id))
    =>
    /\ slast'.op = "deleteContent"
    /\ slast'.id = id
    /\ slast'.role = "Admin"
    /\ slast'.ok
    /\ deletedContents' = deletedContents \cup {id}
    /\ contents' = contents

C17_PublishedHiddenOnlyByAdmin == [][C17_Step]_vars

\* an Editor called deleteContent while the content was a draft; it was
\* published before the call went on, and the repository refused the delete
C17_Witness ==
  /\ slast.op = "deleteContent"
  /\ slast.role = "Editor"
  /\ IsSome(slast.found)
  /\ Get(slast.found).state = "draft"
  /\ slast.error = HardDeleteError
  /\ IsSome(Stored(slast.id))
  /\ Get(Stored(slast.id)).state = "published"

---------------------------------------------------------------------------
\* the published contents that are not tombstoned, by their place in the map
LivePublished ==
  {i \in 1..Len(contents) :
     /\ contents[i].value.state = "published"
     /\ contents[i].key \notin deletedContents}

\* C19: in every repository state countFeatured() is the length of the
\* result of findFeatured(), which is the smaller of 5 and the number of
\* published contents that are not tombstoned; canAddFeaturedContent() is
\* true if and only if that count is below 5, that is, if and only if fewer
\* than 5 published contents are not tombstoned.
C19_FeaturedCount ==
  LET n == Cardinality(LivePublished)
      count == countFeatured(Repo)
  IN /\ count.ok
     /\ count.value = Len(findFeatured(Repo).value)
     /\ count.value = Min(5, n)
     /\ canAddFeaturedContent(Repo) = ok(count.value < 5)
     /\ canAddFeaturedContent(Repo) = ok(n < 5)

\* five published contents are live, one of six being tombstoned, and no
\* featured content can be added
C19_Witness ==
  /\ Cardinality(LivePublished) = 5
  /\ deletedContents # {}
  /\ countFeatured(Repo) = ok(5)
  /\ canAddFeaturedContent(Repo) = ok(FALSE)

\* c was published later than d; a content without publishedAt is the oldest
Later(c, d) ==
  /\ IsSome(c.publishedAt)
  /\ IsSome(d.publishedAt) => Get(c.publishedAt) > Get(d.publishedAt)

---------------------------------------------------------------------------
MaxLimit == 2

\* the pages asked for with a limit: one more than the list can fill
Pages(all, limit) == 1..((Len(all) \div limit) + 2)

\* the places first + 1 .. first + limit of a list, as far as it goes
Places(all, first, limit) == SubSeq(all, first + 1, Min(first + limit, Len(all)))

\* the list less the places that come before those of a page
RECURSIVE Rest(_, _)
Rest(all, n) == IF n = 0 \/ all = <<>> THEN all ELSE Rest(Tail(all), n - 1)

\* C21: for every page >= 1 and limit >= 1, getPublishedContent(page, limit)
\* returns the contents at the places (page-1)*limit up to, not including,
\* page*limit of the list findPublished() returns without criteria; so it
\* returns at most limit contents, and over one repository the pages have
\* no place in common and together hold every published content that is
\* not tombstoned.
C21_Pagination ==
  LET all == findPublished(Repo, None).value IN
  /\ {all[k] : k \in 1..Len(all)} = {contents[i].value : i \in LivePublished}
  /\ Len(all) = Cardinality(LivePublished)
  /\ \A limit \in 1..MaxLimit :
       \A page \in Pages(all, limit) :
         LET got == getPublishedContent(Repo, page, limit)
             before == Rest(all, (page - 1) * limit)
         IN /\ got.ok
            /\ Len(got.value) <= limit
            /\ got.value = Places(all, (page - 1) * limit, limit)
            /\ before = got.value \o Rest(before, limit)

\* five published contents are live: with limit 2 the third page holds the
\* last of them alone, and the fourth page is empty
C21_Witness ==
  LET all == findPublished(Repo, None).value IN
  /\ Len(all) = 5
  /\ deletedContents # {}
  /\ getPublishedContent(Repo, 3, 2).value = <<all[5]>>
  /\ getPublishedContent(Repo, 4, 2).value = <<>>

---------------------------------------------------------------------------
\* C22: in every repository state and for every criteria (author, window of
\* publishedAt, offset, limit), search with the state published added to
\* the criteria returns the contents findPublished returns for them, in the
\* same order; and search with a state in the criteria returns only stored
\* contents that are not tombstoned and are in exactly that state.
C22_SearchAsFindPublished ==
  \A criteria \in CriteriaInputs :
    IF criteria.state = None
    THEN search(Repo, [criteria EXCEPT !.state = Some("published")])
           = findPublished(Repo, Some(criteria))
    ELSE LET found == search(Repo, criteria).value IN
         \A i \in 1..Len(found) :
           /\ found[i].state = Get(criteria.state)
           /\ found[i].id \notin deletedContents
           /\ Stored(found[i].id) = Some(found[i])

\* a published content and a draft are live: search for published returns
\* the one findPublished returns, and not the draft
C22_Witness ==
  LET published == search(Repo, [NoCriteria EXCEPT !.state = Some("published")]).value
      every == search(Repo, NoCriteria).value
  IN /\ Len(published) = 1
     /\ published = findPublished(Repo, None).value
     /\ Len(every) = 2
     /\ \E i \in 1..2 : every[i].state = "draft"

---------------------------------------------------------------------------
\* C23: updateBody(newBody) with a newBody of at least 100 characters
\* returns an instance whose excerpt is the first 150 characters of newBody
\* when the excerpt of the receiver equals the first 150 characters of its
\* body, and the excerpt of the receiver otherwise; with a newBody of fewer
\* than 100 characters it fails with the body error and returns no instance.
C23_UpdateBodyExcerpt ==
  last.op = "updateBody" =>
    LET this == Get(last.before)
        newBody == last.str
    IN IF Length(newBody) < 100
       THEN /\ ~last.ok
            /\ last.error = BodyError
            /\ last.res = 0
       ELSE /\ last.ok
            /\ heap[last.res].body = newBody
            /\ heap[last.res].excerpt =
                 IF this.excerpt = Str(this.body.ch, Min(150, this.body.len))
                 THEN Str(newBody.ch, Min(150, newBody.len))
                 ELSE this.excerpt

\* the excerpt was the whole of a body of 100 characters and became the
\* first 150 of a body of 151
C23_Witness ==
  /\ last.op = "updateBody"
  /\ last.ok
  /\ Get(last.before).excerpt = Get(last.before).body
  /\ Length(last.str) > 150
  /\ heap[last.res].excerpt = Str(last.str.ch, 150)

---------------------------------------------------------------------------
\* C24: two publishContent calls on one id can both read the content as not
\* published before either saves, and both succeed: a publishContent that
\* found a content it may publish, not archived, succeeds and saves what it
\* returns whatever has been saved since it read, another publishContent
\* having published the content included.
C24_Step ==
  (/\ slast'.op = "publishContent"
   /\ IsSome(slast'.found)
   /\ Get(slast'.found).state # "archived"
   /\ \/ slast'.role = "Author" /\ Get(slast'.found).authorId = slast'.userId
      \/ slast'.role \in {"Editor", "Admin"})
  =>
  /\ slast'.ok
  /\ Get(slast'.value).state = "published"
  /\ MapGet(contents', slast'.id) = slast'.value

C24_PublishRace == [][C24_Step]_vars

\* a publishContent succeeded that had read the content as a draft, the
\* content having been published by another call before it went on
C24_Witness ==
  /\ slast.op = "publishContent"
  /\ slast.ok
  /\ Get(slast.found).state = "draft"
  /\ IsSome(slast.stored)
  /\ Get(slast.stored).state = "published"
  /\ Get(slast.stored).title = Get(slast.found).title
  /\ Get(Stored(slast.id)).state = "published"

---------------------------------------------------------------------------
\* C25: for every id, under every interleaving of publishContent and
\* updateContent calls, the publishedAt of the stored content is set once:
\* when the stored content has a publishedAt, no save of a use case leaves
\* the stored content without it or with another timestamp.
C25_Step ==
  \A id \in ServiceIds :
    (/\ slast'.op \in {"publishContent", "updateContent"}
     /\ rlast' = rlast
     /\ IsSome(Stored(id))
     /\ IsSome(Get(Stored(id)).publishedAt)
     /\ MapHas(contents', id))
    => Get(MapGet(contents', id)).publishedAt = Get(Stored(id)).publishedAt

C25_StoredPublishedAtSetOnce == [][C25_Step]_vars

---------------------------------------------------------------------------
\* C26: in every repository state and for every id, findById(id) returns a
\* success, never a failure, and exists(id) is true if and only if
\* findById(id) returns a content and not null, which is so if and only if
\* a content is stored under the id and the id is not soft-deleted.
C26_FindByIdExists ==
  \A id \in ContentIds :
    LET found == findById(Repo, id)
        there == exists(Repo, id)
        held == (\E i \in 1..Len(contents) : contents[i].key = id)
                  /\ id \notin deletedContents
    IN /\ found.ok
       /\ there.ok
       /\ there.value = (found.value # None)
       /\ (found.value # None) = held
       /\ held => found.value = Stored(id)

\* one id is stored behind a tombstone, the other is stored and found
C26_Witness ==
  \E id, other \in ContentIds :
    /\ MapHas(contents, id)
    /\ id \in deletedContents
    /\ exists(Repo, id) = ok(FALSE)
    /\ findById(Repo, id) = ok(None)
    /\ exists(Repo, other) = ok(TRUE)
    /\ findById(Repo, other).value # None

---------------------------------------------------------------------------
\* whether the permission predicate of a use case allows the caller
Permitted(op, content, userId, role) ==
  IF op = "deleteContent"
  THEN \/ role = "Admin"
       \/ role = "Author" /\ content.authorId = userId /\ content.state # "published"
       \/ role = "Editor" /\ content.state # "published"
  ELSE \/ role = "Author" /\ content.authorId = userId
       \/ role \in {"Editor", "Admin"}

\* the permission error of a use case
Denied(op) ==
  CASE op = "publishContent" -> PublishDenied
    [] op = "updateContent" -> EditDenied
    [] op = "deleteContent" -> DeleteDenied

\* C27: publishContent, updateContent and deleteContent go from the lookup
\* to the permission check, to the entity's operation, to the repository,
\* and stop at the first failure: a missing content is reported as "Content
\* not found" whoever calls, a caller the predicate refuses gets the
\* permission error, the repository changes, and the call succeeds, only
\* when findById returned a content and the predicate allowed the caller,
\* and a call that fails at the lookup, at the permission check or in the
\* entity leaves the repository as it was.
C27_Step ==
  slast'.op \in {"publishContent", "updateContent", "deleteContent"} =>
    LET call == slast'
        changed == contents' # contents \/ deletedContents' # deletedContents
        permitted == /\ IsSome(call.found)
                     /\ Permitted(call.op, Get(call.found), call.userId, call.role)
    IN
    /\ ~IsSome(call.found) => ~call.ok /\ call.error = NotFoundError
    /\ (IsSome(call.found) /\ ~permitted) => ~call.ok /\ call.error = Denied(call.op)
    /\ (changed \/ call.ok) => permitted
    /\ (~call.ok /\ call.error \in {NotFoundError, Denied(call.op), TitleError,
                                   BodyError, TransitionError("archived", "published")})
         => ~changed

C27_LookupAuthorizeOperatePersist == [][C27_Step]_vars

\* a caller whom no predicate allows asked for the deletion of a content
\* that is not there and was told "Content not found"
C27_Witness ==
  /\ slast.op = "deleteContent"
  /\ slast.role = "Viewer"
  /\ slast.found = None
  /\ ~slast.ok
  /\ slast.error = NotFoundError

---------------------------------------------------------------------------
\* the instances the state-changing calls on a content return
StateCalls(content, now) ==
  LET results == {changeState(content, s, now).result : s \in ContentStateType}
                   \cup {publish(content, now).result,
                         unpublish(content, now).result,
                         archive(content, now).result}
  IN {result.value : result \in {res \in results : res.ok}}

\* the instances reached from a content by at most n state-changing calls
RECURSIVE Within(_, _, _)
Within(content, n, now) ==
  IF n = 0 THEN {content}
  ELSE LET nearer == Within(content, n - 1, now)
       IN nearer \cup UNION {StateCalls(c, now) : c \in nearer}

\* C28: archived content cannot be published again: from a Content in state
\* archived no sequence of changeState, publish, unpublish and archive
\* calls, each on the instance the call before returned, yields a Content
\* in state published (sequences of up to two calls are looked at).
C28_ArchivedNeverPublished ==
  \A r \in Refs :
    heap[r].state = "archived" =>
      \A content \in Within(heap[r], 2, clock) : content.state # "published"

---------------------------------------------------------------------------
\* C29: for a content that is there and a caller canEdit allows,
\* updateContent with a title of a length outside 5..100, length 0
\* included, or a body of a length below 100, length 0 included, in its
\* updates fails and leaves the stored content as it was.
C29_Step ==
  (/\ slast'.op = "updateContent"
   /\ IsSome(slast'.found)
   /\ Permitted("updateContent", Get(slast'.found), slast'.userId, slast'.role)
   /\ LET updates == slast'.updates IN
      \/ /\ IsSome(updates.title)
         /\ \/ Length(Get(updates.title)) < 5
            \/ Length(Get(updates.title)) > 100
      \/ /\ IsSome(updates.body)
         /\ Length(Get(updates.body)) < 100)
  =>
  /\ ~slast'.ok
  /\ MapGet(contents', slast'.id) = slast'.found
  /\ contents' = contents

C29_InvalidFieldsFail == [][C29_Step]_vars

\* C30: after a successful updateContent, run with no other call in
\* between, the stored content has every field of the updates as it was
\* supplied (title, body and excerpt, an empty excerpt included), has every
\* other field as before, but for the excerpt made anew from a supplied body
\* when it was the first 150 characters of the old body, and has the id,
\* authorId, state and publishedAt it had.
C30_Step ==
  (slast'.op = "updateContent" /\ slast'.ok) =>
    LET updates == slast'.updates
        old == Get(slast'.found)
        new == Get(MapGet(contents', slast'.id))
        body == IF IsSome(updates.body) THEN Get(updates.body) ELSE old.body
    IN
    /\ new.title = IF IsSome(updates.title) THEN Get(updates.title) ELSE old.title
    /\ new.body = body
    /\ new.excerpt =
         IF IsSome(updates.excerpt) THEN Get(updates.excerpt)
         ELSE IF /\ IsSome(updates.body)
                 /\ old.excerpt = Str(old.body.ch, Min(150, old.body.len))
         THEN Str(body.ch, Min(150, body.len))
         ELSE old.excerpt
    /\ new.id = old.id
    /\ new.authorId = old.authorId
    /\ new.state = old.state
    /\ new.publishedAt = old.publishedAt
    /\ slast'.value = Some(new)

C30_UpdatePostcondition == [][C30_Step]_vars

---------------------------------------------------------------------------
\* C31: for every limit n >= 0 and offset k >= 0 in the criteria,
\* findPublished and search return at most n contents: the first n of the
\* filtered list after its first k are skipped; a limit of 0 gives an empty
\* result.
C31_LimitAndOffset ==
  \A n \in 0..MaxLimit, k \in 0..MaxLimit, author \in {None, Some("user-1")} :
    LET filter == [NoCriteria EXCEPT !.authorId = author]
        criteria == [filter EXCEPT !.limit = Some(n), !.offset = Some(k)]
        published == findPublished(Repo, Some(criteria)).value
        searched == search(Repo, criteria).value
    IN /\ Len(published) <= n
       /\ published = Places(findPublished(Repo, Some(filter)).value, k, n)
       /\ Len(searched) <= n
       /\ searched = Places(search(Repo, filter).value, k, n)

---------------------------------------------------------------------------
\* C32: in every interleaving, once a deleteContent of an id has succeeded,
\* no publishContent or updateContent that read the content before the
\* deletion makes the id visible again: when such a call comes to its
\* Result, findById(id) is still null and exists(id) still false, whether
\* the content was soft-deleted or hard-deleted.
C32_Step ==
  (/\ slast'.op \in {"publishContent", "updateContent"}
   /\ rlast' = rlast
   /\ IsSome(slast'.found)
   /\ findById(Repo, slast'.id) = ok(None))
  =>
  LET after == [contents |-> contents', deletedContents |-> deletedContents']
  IN /\ findById(after, slast'.id) = ok(None)
     /\ exists(after, slast'.id) = ok(FALSE)

C32_DeletedStaysDeleted == [][C32_Step]_vars

---------------------------------------------------------------------------
\* C33: in every repository state softDelete(id) and delete(id) do not
\* succeed on an id for which exists(id) is false (never saved,
\* hard-deleted, or soft-deleted already): they fail and leave the
\* repository as it is.
C33_NoDeleteOfMissing ==
  \A id \in ContentIds :
    exists(Repo, id) = ok(FALSE) =>
      LET soft == softDelete(Repo, id)
          hard == delete(Repo, id)
      IN /\ ~soft.result.ok
         /\ After(soft) = Repo
         /\ ~hard.result.ok
         /\ After(hard) = Repo

---------------------------------------------------------------------------
\* Content.create returned a content that is not published and has no
\* publishedAt
CreatedUnpublished ==
  /\ last.op = "create"
  /\ last.ok
  /\ heap[1].state # "published"
  /\ heap[1].publishedAt = None

\* what publishContent stores for a content held, saved in a repository of
\* its own, when it succeeds
PublishStored(content, userId, role) ==
  LET repo == After(save([contents |-> <<>>, deletedContents |-> {}], content))
      out == publishContent(repo, findById(repo, content.id).value, userId, role, clock)
  IN IF out.result.ok THEN MapGet(out.contents, content.id) ELSE None

\* every instance held that is published has its publishedAt
Stamped ==
  \A r \in Refs : heap[r].state = "published" => IsSome(heap[r].publishedAt)

\* what publishContent stores is published and has its publishedAt
PublishStamps ==
  \A r \in Refs, userId \in UserIds, role \in Roles :
    LET stored == PublishStored(heap[r], userId, role) IN
    IsSome(stored) =>
      /\ Get(stored).state = "published"
      /\ IsSome(Get(stored).publishedAt)

\* a content created unpublished and without publishedAt is Stamped, and a
\* call of a mutator on instances that are Stamped returns one that is
C34_Step ==
  /\ CreatedUnpublished' => Stamped'
  /\ (last'.op # "create" /\ Stamped) => Stamped'

\* C34: for a Content created in a state other than published and with no
\* publishedAt, after any sequence of successful mutators the instance
\* returned, when its state is published, has its publishedAt set (the
\* creation establishes it and every call keeps it); and the content
\* publishContent stores is published and has its publishedAt set.
C34_PublishedHasPublishedAt == [][C34_Step]_vars /\ []PublishStamps

\* a draft created without publishedAt was published: the instance returned
\* has its publishedAt, and so has what publishContent stores for the draft
C34_Witness ==
  /\ last.op \in {"publish", "changeState"}
  /\ last.ok
  /\ Get(last.before).state = "draft"
  /\ Get(last.before).publishedAt = None
  /\ heap[last.res].state = "published"
  /\ heap[last.res].publishedAt = Some(last.now)
  /\ IsSome(PublishStored(Get(last.before), Get(last.before).authorId, "Author"))

====
